---- MODULE Spec2Model ----
(***************************************************************************)
(* Model of fake_atc.py, the AT command emulator: the line framer of the   *)
(* main loop, parse_at, build_response, load_commands, reboot_modem,       *)
(* cleanup and the read/process/write loop of main.                        *)
(*                                                                         *)
(* Text is a sequence of one-character tokens.  Tokens of more than one    *)
(* letter name a character that has no printable one-letter form:          *)
(*   "CR" carriage return, "LF" line feed, "SUP2" the superscript two      *)
(*   U+00B2, and the bytes "xC2", "xB2" (the UTF-8 encoding of U+00B2)     *)
(*   and "xFF" (a byte that is never valid UTF-8).                         *)
(***************************************************************************)
EXTENDS Integers, Sequences, FiniteSets, TLC

\* ------------------------------------------------------------------
\* Bounds of the model
\* ------------------------------------------------------------------
MaxKeys == 2        \* entries of a command table (resolver specification)
MaxStream == 4      \* bytes of a stream fed to the framer (framer specification)
MaxSends == 2       \* writes the client performs in one run of the engine
MaxWrites == 3      \* responses the engine writes in one run

\* ------------------------------------------------------------------
\* Text primitives (Python str / bytes methods)
\* ------------------------------------------------------------------
LowerLetters == << "a","b","c","d","e","f","g","h","i","j","k","l","m",
                   "n","o","p","q","r","s","t","u","v","w","x","y","z" >>
UpperLetters == << "A","B","C","D","E","F","G","H","I","J","K","L","M",
                   "N","O","P","Q","R","S","T","U","V","W","X","Y","Z" >>

\* str.upper() on one character
UpperChar(c) ==
    IF \E i \in 1..Len(LowerLetters) : LowerLetters[i] = c
    THEN UpperLetters[CHOOSE i \in 1..Len(LowerLetters) : LowerLetters[i] = c]
    ELSE c

\* str.lower() on one character
LowerChar(c) ==
    IF \E i \in 1..Len(UpperLetters) : UpperLetters[i] = c
    THEN LowerLetters[CHOOSE i \in 1..Len(UpperLetters) : UpperLetters[i] = c]
    ELSE c

\* str.upper()
Upper(s) == [i \in 1..Len(s) |-> UpperChar(s[i])]

\* str.lower()
Lower(s) == [i \in 1..Len(s) |-> LowerChar(s[i])]

\* s[i:]  (0-based i as in Python)
From(s, i) == IF i >= Len(s) THEN << >> ELSE SubSeq(s, i + 1, Len(s))

\* s[:i]
Upto(s, i) == IF i <= 0 THEN << >> ELSE SubSeq(s, 1, IF i > Len(s) THEN Len(s) ELSE i)

\* s.startswith(p, i), i 0-based
StartsAt(s, p, i) ==
    /\ i + Len(p) <= Len(s)
    /\ \A k \in 1..Len(p) : s[i + k] = p[k]

\* p in s
Contains(s, p) == \E i \in 0..Len(s) : StartsAt(s, p, i)

\* s.find(p): 0-based index of the first occurrence, -1 when absent
Find(s, p) ==
    LET hits == { i \in 0..Len(s) : StartsAt(s, p, i) }
    IN  IF hits = { } THEN -1
        ELSE CHOOSE i \in hits : \A j \in hits : i <= j

\* s.replace(old, new), old non-empty: left to right, non-overlapping,
\* the inserted text is not scanned again
RECURSIVE Replace(_, _, _)
Replace(s, old, new) ==
    LET at == Find(s, old)
    IN  IF at = -1 THEN s
        ELSE Upto(s, at) \o new \o Replace(From(s, at + Len(old)), old, new)

\* characters str.strip() removes (those of the model's alphabet)
Whitespace == {" ", "CR", "LF"}

RECURSIVE LStrip(_)
LStrip(s) == IF s # << >> /\ Head(s) \in Whitespace THEN LStrip(Tail(s)) ELSE s

RECURSIVE RStrip(_)
RStrip(s) ==
    IF s # << >> /\ s[Len(s)] \in Whitespace THEN RStrip(Upto(s, Len(s) - 1)) ELSE s

\* str.strip()
Strip(s) == RStrip(LStrip(s))

\* s.split(c) for a one-character separator: always at least one piece
RECURSIVE Split(_, _)
Split(s, c) ==
    LET at == Find(s, <<c>>)
    IN  IF at = -1 THEN << s >>
        ELSE << Upto(s, at) >> \o Split(From(s, at + 1), c)

\* characters for which str.isdigit() is true: the decimal digits and the
\* characters of Unicode type Digit such as the superscript two
AsciiDigits == << "0","1","2","3","4","5","6","7","8","9" >>
IsDecimalChar(c) == \E i \in 1..Len(AsciiDigits) : AsciiDigits[i] = c
IsDigitChar(c) == IsDecimalChar(c) \/ c = "SUP2"

\* str.isdigit(): non-empty and every character is a digit
IsDigit(s) == s # << >> /\ \A i \in 1..Len(s) : IsDigitChar(s[i])

DigitValue(c) == (CHOOSE i \in 1..Len(AsciiDigits) : AsciiDigits[i] = c) - 1

\* int(s) for s accepted by isdigit(): the value, or ValueError when a
\* character is a digit that is not a decimal
IntParses(s) == \A i \in 1..Len(s) : IsDecimalChar(s[i])

RECURSIVE IntValue(_)
IntValue(s) ==
    IF s = << >> THEN 0
    ELSE 10 * IntValue(Upto(s, Len(s) - 1)) + DigitValue(s[Len(s)])

\* ------------------------------------------------------------------
\* Command table (the value json.load returns)
\* ------------------------------------------------------------------
\* A table is the sequence of its items in document order (a Python dict
\* iterates in insertion order).  A value is a JSON string, a JSON object
\* with optional members "resp" and "delay", a JSON number or null.
StrEntry(t) ==
    [kind |-> "str", text |-> t, hasResp |-> FALSE, hasDelay |-> FALSE, delay |-> 0]
DictEntry(t, d) ==
    [kind |-> "dict", text |-> t, hasResp |-> TRUE, hasDelay |-> TRUE, delay |-> d]
DictNoDelay(t) ==
    [kind |-> "dict", text |-> t, hasResp |-> TRUE, hasDelay |-> FALSE, delay |-> 0]
DictNoResp(d) ==
    [kind |-> "dict", text |-> << >>, hasResp |-> FALSE, hasDelay |-> TRUE, delay |-> d]
NumEntry(n) ==
    [kind |-> "num", text |-> << >>, hasResp |-> FALSE, hasDelay |-> FALSE, delay |-> n]
NullEntry ==
    [kind |-> "null", text |-> << >>, hasResp |-> FALSE, hasDelay |-> FALSE, delay |-> 0]

Item(k, v) == [key |-> k, val |-> v]

HasKey(commands, name) == \E i \in 1..Len(commands) : commands[i].key = name

\* commands.get(name): the value, None (modelled by NullEntry) when absent
Get(commands, name) ==
    IF HasKey(commands, name)
    THEN commands[CHOOSE i \in 1..Len(commands) : commands[i].key = name].val
    ELSE NullEntry

\* ------------------------------------------------------------------
\* parse_at
\* ------------------------------------------------------------------
parse_at(line0) ==
    LET line == Strip(line0) IN
    IF line = << >> THEN [name |-> << >>, args |-> << >>]
    ELSE IF Contains(line, << "=" >>)
    THEN LET eq == Find(line, << "=" >>)
             pieces == Split(From(line, eq + 1), ",")
         IN  [name |-> Upper(Upto(line, eq)),
              args |-> [i \in 1..Len(pieces) |-> Strip(pieces[i])]]
    ELSE [name |-> Upper(line), args |-> << >>]

\* ------------------------------------------------------------------
\* build_response
\* ------------------------------------------------------------------
CRLF == << "CR", "LF" >>
RespOK == CRLF \o << "O", "K" >> \o CRLF
RespERROR == CRLF \o << "E", "R", "R", "O", "R" >> \o CRLF
NameDELAY == << "A", "T", "+", "D", "E", "L", "A", "Y" >>
NameCFUN == << "A", "T", "+", "C", "F", "U", "N" >>
ArgToken == << "{", "a", "r", "g", "}" >>

\* the value build_response returns, or the exception it raises
Returns(d, r) == [exc |-> "none", delay |-> d, resp |-> r]
Raises(e) == [exc |-> e, delay |-> 0, resp |-> << >>]

\* "{" + key.lower().replace("+", "") + "}"
Placeholder(key) == << "{" >> \o Replace(Lower(key), << "+" >>, << >>) \o << "}" >>

\* the loop over commands.items(), from item i on: a placeholder found in
\* resp is replaced in the text accumulated so far; str.replace raises
\* TypeError when the value is not a string
RECURSIVE SubstituteFrom(_, _, _)
SubstituteFrom(resp, commands, i) ==
    IF i > Len(commands) THEN Returns(0, resp)
    ELSE LET placeholder == Placeholder(commands[i].key)
         IN  IF Contains(resp, placeholder)
             THEN IF commands[i].val.kind = "str"
                  THEN SubstituteFrom(
                         Replace(resp, placeholder, commands[i].val.text),
                         commands, i + 1)
                  ELSE Raises("TypeError")
             ELSE SubstituteFrom(resp, commands, i + 1)

\* if "{arg}" in resp and args: resp = resp.replace("{arg}", args[0])
SubstituteArg(resp, args) ==
    IF Contains(resp, ArgToken) /\ args # << >>
    THEN Replace(resp, ArgToken, args[1])
    ELSE resp

\* the table-driven part of build_response without the CR LF after the body
ResolveEntry_unwrapped(entry, args, commands) ==
    LET delay_ms == IF entry.kind = "dict" /\ entry.hasDelay THEN entry.delay ELSE 0
    IN  IF entry.kind = "dict" /\ ~entry.hasResp THEN Raises("KeyError")
        ELSE IF entry.kind = "num" THEN Raises("TypeError")
        ELSE LET done == SubstituteFrom(SubstituteArg(entry.text, args), commands, 1)
             IN  IF done.exc # "none" THEN done
                 ELSE Returns(delay_ms, CRLF \o done.resp)

\* the table-driven part of build_response, for an entry that is not None
ResolveEntry(entry, args, commands) ==
    LET delay_ms == IF entry.kind = "dict" /\ entry.hasDelay THEN entry.delay ELSE 0
    IN  IF entry.kind = "dict" /\ ~entry.hasResp THEN Raises("KeyError")
        ELSE IF entry.kind = "num" THEN Raises("TypeError")
        ELSE LET done == SubstituteFrom(SubstituteArg(entry.text, args), commands, 1)
             IN  IF done.exc # "none" THEN done
                 ELSE Returns(delay_ms, CRLF \o done.resp \o CRLF)

\* build_response with the table consulted before the reserved commands
build_response_table_first(name, args, commands) ==
    IF Get(commands, name).kind # "null"
    THEN ResolveEntry(Get(commands, name), args, commands)
    ELSE IF name = NameDELAY
    THEN IF args # << >> /\ IsDigit(args[1])
         THEN IF IntParses(args[1])
              THEN Returns(IntValue(args[1]), RespOK)
              ELSE Raises("ValueError")
         ELSE Returns(0, RespERROR)
    ELSE IF name = NameCFUN /\ args = << << "1" >>, << "1" >> >>
    THEN Returns(-1, RespOK)
    ELSE IF name = NameCFUN
    THEN Returns(0, RespOK)
    ELSE Returns(0, RespERROR)

build_response(name, args, commands) ==
    IF name = NameDELAY
    THEN IF args # << >> /\ IsDigit(args[1])
         THEN IF IntParses(args[1])
              THEN Returns(IntValue(args[1]), RespOK)
              ELSE Raises("ValueError")
         ELSE Returns(0, RespERROR)
    ELSE IF name = NameCFUN /\ args = << << "1" >>, << "1" >> >>
    THEN Returns(-1, RespOK)
    ELSE IF name = NameCFUN
    THEN Returns(0, RespOK)
    ELSE LET entry == Get(commands, name)
         IN  IF entry.kind = "null"
             THEN Returns(0, RespERROR)
             ELSE ResolveEntry(entry, args, commands)

\* ------------------------------------------------------------------
\* load_commands
\* ------------------------------------------------------------------
\* A document is what the file at the given path holds: unreadable (or not
\* JSON), or a JSON object with the given items.
Document(items) == [readable |-> TRUE, items |-> items]
Unreadable == [readable |-> FALSE, items |-> << >>]

\* json.load(f): the parsed document as it is, or an exception
load_commands(d) ==
    IF d.readable THEN [exc |-> "none", value |-> d.items]
    ELSE [exc |-> "Exception", value |-> << >>]

\* ------------------------------------------------------------------
\* Line framer (the inner loop of main)
\* ------------------------------------------------------------------
\* b"\r" in buffer or b"\n" in buffer
HasTerminator(buf) == Contains(buf, << "CR" >>) \/ Contains(buf, << "LF" >>)

\* sep = min(idxs): index of the earliest CR or LF
SepIndex(buf) ==
    LET cr == Find(buf, << "CR" >>)
        lf == Find(buf, << "LF" >>)
    IN  IF cr = -1 THEN lf
        ELSE IF lf = -1 THEN cr
        ELSE IF cr < lf THEN cr ELSE lf

\* line_bytes = buffer[:sep]
LineBytes(buf) == Upto(buf, SepIndex(buf))

\* buffer = buffer[sep + 1:]
AfterLine(buf) == From(buf, SepIndex(buf) + 1)

\* bytes.decode(errors="ignore"): UTF-8; bytes that start no valid
\* sequence are dropped
RECURSIVE Decode(_)
Decode(b) ==
    IF b = << >> THEN << >>
    ELSE IF Head(b) = "xC2"
    THEN IF Len(b) >= 2 /\ b[2] = "xB2"
         THEN << "SUP2" >> \o Decode(From(b, 2))
         ELSE Decode(Tail(b))
    ELSE IF Head(b) \in {"xB2", "xFF"} THEN Decode(Tail(b))
    ELSE << Head(b) >> \o Decode(Tail(b))

\* line = line_bytes.decode(errors="ignore").strip()
DecodeLine(b) == Strip(Decode(b))

\* the inner loop without the resolution of the lines: the non-empty lines
\* framed from buf, in order, after those of acc, and the bytes left over
RECURSIVE FrameAll(_, _)
FrameAll(buf, acc) ==
    IF ~HasTerminator(buf) THEN [lines |-> acc, buffer |-> buf]
    ELSE LET text == DecodeLine(LineBytes(buf))
         IN  IF text = << >>
             THEN FrameAll(AfterLine(buf), acc)
             ELSE FrameAll(AfterLine(buf), Append(acc, text))

\* the same with buffer = data in place of buffer += data
Feed_drops_leftover(buf, acc, data) == FrameAll(data, acc)

\* buffer += data, then the inner loop
Feed(buf, acc, data) == FrameAll(buf \o data, acc)

\* ------------------------------------------------------------------
\* State
\* ------------------------------------------------------------------
VARIABLES
    pc,         \* position of the process (see the actions)
    doc,        \* the document at the path given with --commands
    commands,   \* main: commands
    buffer,     \* main: buffer
    line,       \* main: line (the last line framed)
    res,        \* main: delay_ms, resp (the last result of build_response)
    ep,         \* number of the pseudo-terminal pair master_fd refers to
    inq,        \* bytes written by the client to endpoint ep and not yet read
    out,        \* history: the responses written, each with its endpoint
    framed,     \* history: the non-empty lines framed
    sent,       \* history: the writes of the client
    cause,      \* why the process ended, "none" while it runs
    stream,     \* framer specification: the byte stream
    cut,        \* framer specification: the cut point
    target,     \* args.target is given (--target)
    alias,      \* the path the link at args.target points at, "none" if absent
    path,       \* os.ttyname of the slave of the pair that is open
    active_link, \* the global active_link is set
    fds,        \* master_fd and slave_fd: "none", "open", "closed", or
                \* "slave_closed" when only the slave was closed
    master0,    \* master_fd is 0 (before main: descriptor 0 is free)
    leaked,     \* path of a pair closed by reboot_modem whose master is
                \* still open, "none" if there is none
    echo,       \* the termios of the slave that is open have ECHO set
    raw,        \* the client sets raw mode on a slave it opens
    aliasLog,   \* history: how the last operation on the link ended
    last,       \* history: the position at which the process ended
    rcvd        \* history: every byte os.read returned

\* what belongs to the pseudo-terminal and to the link at args.target
env == << target, alias, path, active_link, fds, master0, leaked, echo, raw,
          aliasLog, last >>

vars == << pc, doc, commands, buffer, line, res, ep, inq, out, framed, sent,
           cause, stream, cut, env, rcvd >>

\* no pseudo-terminal was opened and no link made
NoTransport ==
    /\ target = FALSE /\ alias = "none" /\ path = "none" /\ active_link = FALSE
    /\ fds = "none" /\ master0 = FALSE /\ leaked = "none" /\ echo = FALSE
    /\ raw = FALSE /\ aliasLog = "none" /\ last = "none" /\ rcvd = << >>

NoResult == Returns(0, << >>)

\* ------------------------------------------------------------------
\* Resolver specification: parse_at and build_response on every table of
\* at most MaxKeys items and every line of ResolverLines
\* ------------------------------------------------------------------
KeyX == << "A", "T", "+", "X" >>
KeyY == << "A", "T", "+", "Y" >>
KeyLowerAti == << "a", "t", "i" >>
TableKeys == { KeyX, KeyY, KeyLowerAti, NameCFUN, NameDELAY }

TextVal1 == << "v", "a", "l", "1" >>
TextPrePost == << "p", "r", "e", " ", "{", "a", "t", "x", "}", " ", "p", "o", "s", "t" >>
TextYArg == << "{", "a", "t", "y", "}", "{", "a", "r", "g", "}" >>
TextRX == << "r", "{", "a", "t", "x", "}" >>
TableEntries ==
    { StrEntry(TextVal1), StrEntry(TextPrePost), StrEntry(TextYArg),
      DictEntry(TextRX, 5), DictNoResp(5) }

\* the tables: sequences of at most MaxKeys items with distinct keys
Tables ==
    UNION { { t \in [1..n -> { Item(k, v) : k \in TableKeys, v \in TableEntries }] :
                \A i, j \in 1..n : i # j => t[i].key # t[j].key }
            : n \in 0..MaxKeys }

RawNames ==
    { KeyX, KeyY, KeyLowerAti, << "A", "T", "I" >>,
      NameDELAY, NameCFUN, << "a", "t", "+", "c", "f", "u", "n" >>,
      << "A", "T", "+", "Q" >> }

\* the text after "=", when there is one
RawArgs ==
    { << >>, << "1", ",", "1" >>, << " ", "1", " ", ",", " ", "1" >>, << "1" >>,
      << "1", ",", "1", ",", "1" >>, << "0" >>, << "2", "5" >>, << "a" >>, << "SUP2" >> }

ResolverLines == RawNames \cup { n \o << "=" >> \o a : n \in RawNames, a \in RawArgs }

InitResolver ==
    /\ pc = "r_input"
    /\ commands \in Tables
    /\ line \in ResolverLines
    /\ doc = Document(commands)
    /\ res = NoResult
    /\ buffer = << >> /\ ep = 0 /\ inq = << >> /\ out = << >>
    /\ framed = << >> /\ sent = << >> /\ stream = << >> /\ cut = 0
    /\ cause = "none"
    /\ NoTransport

\* name, args_list = parse_at(line); delay_ms, resp = build_response(...)
Resolve ==
    /\ pc = "r_input"
    /\ res' = build_response(parse_at(line).name, parse_at(line).args, commands)
    /\ pc' = "r_done"
    /\ UNCHANGED << doc, commands, buffer, line, ep, inq, out, framed, sent, stream, cut, cause, env, rcvd >>

NextResolver == Resolve

SpecResolver == InitResolver /\ [][NextResolver]_vars

\* ------------------------------------------------------------------
\* Properties of the resolver
\* ------------------------------------------------------------------
Resolved == pc = "r_done"
ParsedName == parse_at(line).name
ParsedArgs == parse_at(line).args
Reserved == ParsedName \in { NameDELAY, NameCFUN }

\* the line names, in the parser's casing, a key whose entry has a template
IsHit ==
    /\ ~Reserved
    /\ \/ Get(commands, ParsedName).kind = "str"
       \/ Get(commands, ParsedName).kind = "dict" /\ Get(commands, ParsedName).hasResp

\* the template of the entry hit, after the substitution of {arg}
HitTemplate == SubstituteArg(Get(commands, ParsedName).text, ParsedArgs)

\* the response without the CR LF before and after it
Body(r) == SubSeq(r, 3, Len(r) - 2)

\* a non-empty string of decimal digits
AllDecimal(s) == s # << >> /\ \A i \in 1..Len(s) : IsDecimalChar(s[i])

\* C6: resolving AT+DELAY gives OK with the delay of the first argument when
\* that argument exists and is all decimal digits, and ERROR with delay 0
\* otherwise, whatever the table holds.
C6_DelayResolution ==
    (Resolved /\ ParsedName = NameDELAY) =>
        IF ParsedArgs # << >> /\ AllDecimal(ParsedArgs[1])
        THEN res = Returns(IntValue(ParsedArgs[1]), RespOK) /\ res.delay # -1
        ELSE res = Returns(0, RespERROR)

\* C7: resolving AT+CFUN gives OK with the reboot signal for the arguments
\* ["1","1"] and OK with delay 0 and no signal for any other arguments, the
\* table being neither consulted nor changed.
C7_CfunResolution ==
    (Resolved /\ ParsedName = NameCFUN) =>
        /\ commands = doc.items
        /\ IF ParsedArgs = << << "1" >>, << "1" >> >>
           THEN res = Returns(-1, RespOK)
           ELSE res = Returns(0, RespOK)

\* C7 witness: AT+CFUN=1,1 resolved to the reboot signal under a table that
\* has an entry named AT+CFUN
C7_Witness ==
    /\ Resolved /\ ParsedName = NameCFUN
    /\ ParsedArgs = << << "1" >>, << "1" >> >>
    /\ HasKey(commands, NameCFUN)
    /\ res.delay = -1

\* C8: a line whose command name equals a key of the table when letter case
\* is ignored resolves to that key's entry.
C8_CaseInsensitiveLookup ==
    (Resolved /\ ~Reserved) =>
        \A i \in 1..Len(commands) :
            Upper(commands[i].key) = ParsedName =>
                res = ResolveEntry(commands[i].val, ParsedArgs, commands)

\* C9: when the template of the entry hit contains the placeholder of
\* another key whose entry is a text, a response is produced, and when that
\* is the only placeholder of a key in the template the body is the template
\* with every occurrence replaced by that key's text.
C9_CrossReference ==
    (Resolved /\ IsHit) =>
        \A k \in 1..Len(commands) :
            ( /\ commands[k].key # ParsedName
              /\ commands[k].val.kind = "str"
              /\ Contains(HitTemplate, Placeholder(commands[k].key)) ) =>
                /\ res.exc = "none"
                /\ (\A l \in 1..Len(commands) :
                        l # k => ~Contains(HitTemplate, Placeholder(commands[l].key)))
                    => Body(res.resp) = Replace(HitTemplate,
                                                Placeholder(commands[k].key),
                                                commands[k].val.text)

\* C10: the text inserted for a referenced key is not substituted again: a
\* placeholder of a key that occurs in the text of a referenced entry is
\* still in the response.
C10_InsertedTextNotExpanded ==
    (Resolved /\ IsHit /\ res.exc = "none") =>
        \A k \in 1..Len(commands) :
            ( /\ commands[k].val.kind = "str"
              /\ Contains(HitTemplate, Placeholder(commands[k].key)) ) =>
                \A l \in 1..Len(commands) :
                    Contains(commands[k].val.text, Placeholder(commands[l].key))
                        => Contains(res.resp, Placeholder(commands[l].key))

\* the response starts with CR LF and ends with CR LF around a body
Wrapped(r) ==
    /\ Len(r) >= 4
    /\ SubSeq(r, 1, 2) = CRLF
    /\ SubSeq(r, Len(r) - 1, Len(r)) = CRLF

\* the template of the entry hit names a key of the table, its own included
RefersToKey ==
    \E k \in 1..Len(commands) : Contains(HitTemplate, Placeholder(commands[k].key))

\* C11: the resolution of a hit whose template holds placeholders of keys
\* of the table, the key hit included, ends and returns a response.
C11_ResolutionReturns ==
    (Resolved /\ IsHit /\ RefersToKey) =>
        /\ res.exc = "none"
        /\ Wrapped(res.resp)

\* C12: every response the resolver returns is CR LF, a body, CR LF; a
\* line that names no key and no reserved command gives CR LF ERROR CR LF
\* with delay 0, and a hit on a text without placeholders gives CR LF, the
\* text, CR LF.
C12_ResponseForm ==
    Resolved =>
        LET name == ParsedName
            entry == Get(commands, name)
            reserved == name \in { NameDELAY, NameCFUN }
        IN  /\ res.exc = "none" => Wrapped(res.resp)
            /\ (~reserved /\ entry.kind = "null") => res = Returns(0, RespERROR)
            /\ (~reserved /\ entry = StrEntry(TextVal1))
                    => res = Returns(0, CRLF \o TextVal1 \o CRLF)

\* C12 witness: a hit on a text entry resolved to CR LF, the text, CR LF
C12_Witness ==
    /\ Resolved /\ IsHit
    /\ Get(commands, ParsedName) = StrEntry(TextVal1)
    /\ res.resp = CRLF \o TextVal1 \o CRLF

\* C19: when the template of the entry hit contains the placeholder of a
\* key whose entry is a record with a resp text, a response is produced
\* with the delay of the entry hit, and when that is the only placeholder of
\* a key in the template the body is the template with every occurrence
\* replaced by the record's resp text.
C19_RecordReference ==
    (Resolved /\ IsHit) =>
        \A k \in 1..Len(commands) :
            ( /\ commands[k].val.kind = "dict"
              /\ commands[k].val.hasResp
              /\ Contains(HitTemplate, Placeholder(commands[k].key)) ) =>
                /\ res.exc = "none"
                /\ res.delay = ResolveEntry(Get(commands, ParsedName), << >>, << >>).delay
                /\ (\A l \in 1..Len(commands) :
                        l # k => ~Contains(HitTemplate, Placeholder(commands[l].key)))
                    => Body(res.resp) = Replace(HitTemplate,
                                                Placeholder(commands[k].key),
                                                commands[k].val.text)

\* ------------------------------------------------------------------
\* Framer specification: every stream of at most MaxStream bytes, fed in
\* two reads cut at every point
\* ------------------------------------------------------------------
FrameBytes == { "A", " ", "CR", "LF", "xC2", "xB2", "xFF" }

Streams == UNION { [1..n -> FrameBytes] : n \in 0..MaxStream }

InitFramer ==
    /\ pc = "f_input"
    /\ stream \in Streams
    /\ cut \in 0..Len(stream)
    /\ buffer = << >> /\ framed = << >>
    /\ doc = Document(<< >>) /\ commands = << >> /\ line = << >> /\ res = NoResult
    /\ ep = 0 /\ inq = << >> /\ out = << >> /\ sent = << >>
    /\ cause = "none"
    /\ NoTransport

\* one turn of the outer loop on the bytes data that os.read returned, at
\* position from: if not data: break, which ends the process with nothing
\* framed from them; otherwise buffer += data and the inner loop
FeedRead(data, from, to) ==
    /\ pc = from
    /\ IF data = << >>
       THEN /\ pc' = "f_closed" /\ cause' = "peer_closed"
            /\ UNCHANGED << buffer, framed >>
       ELSE /\ buffer' = Feed(buffer, framed, data).buffer
            /\ framed' = Feed(buffer, framed, data).lines
            /\ pc' = to /\ cause' = cause
    /\ UNCHANGED << doc, commands, line, res, ep, inq, out, sent, stream, cut, env, rcvd >>

\* the first read returns stream[:cut]
FeedFirst == FeedRead(Upto(stream, cut), "f_input", "f_first")

\* the second read returns stream[cut:]
FeedSecond == FeedRead(From(stream, cut), "f_first", "f_both")

NextFramer == FeedFirst \/ FeedSecond

SpecFramer == InitFramer /\ [][NextFramer]_vars

\* C4: after the two pieces of a stream were fed in two reads, the lines
\* framed and the bytes left over are those of one read of the whole
\* stream; a piece is what a read returns, at least one byte.
C4_ChunkIndependence ==
    pc = "f_both" =>
        /\ framed = FrameAll(stream, << >>).lines
        /\ buffer = FrameAll(stream, << >>).buffer

\* C4 witness: the cut falls inside a line, between the two bytes of one
\* character, and the line is framed by the second read
C4_Witness ==
    /\ pc = "f_both"
    /\ 0 < cut /\ cut < Len(stream)
    /\ stream[cut] = "xC2" /\ stream[cut + 1] = "xB2"
    /\ framed = << << "SUP2" >> >>

\* ------------------------------------------------------------------
\* Engine specification: main, from the loading of the table to the end of
\* the process, with a client that writes at most MaxSends messages
\* ------------------------------------------------------------------
KeyATI == << "A", "T", "I" >>

TextRefX == << "{", "a", "t", "x", "}" >>

\* {"ATI": "val1", "AT+X": {"resp": "val1", "delay": 5}, "AT+Y": "{atx}"}
DocGood ==
    Document(<< Item(KeyATI, StrEntry(TextVal1)), Item(KeyX, DictEntry(TextVal1, 5)),
                Item(KeyY, StrEntry(TextRefX)) >>)
\* {"ATI": {"delay": 5}}
DocNoResp == Document(<< Item(KeyATI, DictNoResp(5)) >>)
\* {"ATI": {"resp": "val1", "delay": -1}}
DocMinusOne == Document(<< Item(KeyATI, DictEntry(TextVal1, -1)) >>)
EngineDocuments == { DocGood, DocNoResp, DocMinusOne, Unreadable }

MsgCFUN11 == NameCFUN \o << "=", "1", ",", "1", "CR" >>
MsgATI == KeyATI \o << "CR" >>
MsgX == KeyX \o << "CR", "LF" >>
MsgY == KeyY \o << "LF" >>
MsgAT == << "A", "T" >>
ClientMessages == { MsgCFUN11, MsgATI, MsgX, MsgY, MsgAT }

\* the size given to os.read
ReadSize == 1024

\* the paths os.ttyname can give to a slave
FirstPath == "/dev/pts/1"
OtherPath == "/dev/pts/2"
ThirdPath == "/dev/pts/3"
Paths == { FirstPath, OtherPath, ThirdPath }

\* positions at which the handlers are installed and the loop of main is
\* running, the steps of reboot_modem included
Running == { "read", "lines", "delay", "write", "reboot_write", "settle", "reboot",
             "rb_open", "rb_alias", "rb_record" }

\* resp.encode(): UTF-8
RECURSIVE Encode(_)
Encode(t) ==
    IF t = << >> THEN << >>
    ELSE (IF Head(t) = "SUP2" THEN << "xC2", "xB2" >> ELSE << Head(t) >>)
         \o Encode(Tail(t))

\* the termios pty.openpty gives a slave, on what is written to the slave:
\* OPOST and ONLCR turn LF into CR LF on the way to the master
RECURSIVE Onlcr(_)
Onlcr(b) ==
    IF b = << >> THEN << >>
    ELSE (IF Head(b) = "LF" THEN CRLF ELSE << Head(b) >>) \o Onlcr(Tail(b))

\* the same termios on what is written to the master: ICRNL turns CR into
\* LF and ECHO sends every byte back to the master, LF as CR LF
RECURSIVE Echo(_)
Echo(b) ==
    IF b = << >> THEN << >>
    ELSE (IF Head(b) \in { "CR", "LF" } THEN CRLF ELSE << Head(b) >>) \o Echo(Tail(b))

\* what os.read gets of a message the client writes
Arrives(m) == IF raw THEN m ELSE Onlcr(m)

\* what comes back to os.read of a response written to the master
EchoOf(resp) == IF echo THEN Echo(Encode(resp)) ELSE << >>

\* os.path.exists(args.target) follows the link: it is False when nothing
\* is at the path, True when the link points at the slave just opened or at
\* the slave of a pair whose master is still open, and depends on the other
\* processes when it points at another path
ExistsChoices(a, new, held) ==
    IF a = "none" THEN { FALSE }
    ELSE IF a \in { new, held } THEN { TRUE }
    ELSE BOOLEAN

\* try: if os.path.exists(args.target): os.remove(args.target)
\*      os.symlink(slave_name, args.target)
\* except Exception: pass
\* with the link pointing at a, the new slave path new, the answer of
\* os.path.exists, and whether os.remove and os.symlink are permitted;
\* os.symlink raises FileExistsError when the link is still there; set
\* tells that the assignment active_link = args.target is reached
AliasBlock(a, new, exists, removeOk, linkOk) ==
    IF exists /\ ~removeOk
    THEN [alias |-> a, log |-> "remove_refused", set |-> FALSE]
    ELSE IF ~exists /\ a # "none"
    THEN [alias |-> a, log |-> "create_exists", set |-> FALSE]
    ELSE IF linkOk
    THEN [alias |-> new, log |-> "created", set |-> TRUE]
    ELSE [alias |-> "none", log |-> "create_refused", set |-> FALSE]

\* the outcomes of the block under every behaviour of the file system
AliasOutcomes(a, new, held) ==
    { AliasBlock(a, new, c[1], c[2], c[3]) :
        c \in ExistsChoices(a, new, held) \X BOOLEAN \X BOOLEAN }

\* the runs: a document at the path of --commands, --target given or not,
\* a client that sets raw mode or leaves the termios as they are, and the
\* process started with or without descriptor 0 free
EngineConfigs ==
    { [doc |-> d, target |-> FALSE, raw |-> TRUE, master0 |-> FALSE] :
        d \in EngineDocuments }
    \cup { [doc |-> DocGood, target |-> TRUE, raw |-> TRUE, master0 |-> b] :
            b \in BOOLEAN }
    \cup { [doc |-> DocGood, target |-> FALSE, raw |-> FALSE, master0 |-> FALSE] }

\* the state before main runs, with nothing at the path of --target
Init ==
    /\ pc = "start"
    /\ \E c \in EngineConfigs :
        /\ doc = c.doc /\ target = c.target /\ raw = c.raw /\ master0 = c.master0
    /\ commands = << >> /\ buffer = << >> /\ line = << >> /\ res = NoResult
    /\ ep = 0 /\ inq = << >> /\ out = << >> /\ framed = << >> /\ sent = << >>
    /\ stream = << >> /\ cut = 0 /\ cause = "none"
    /\ alias = "none" /\ path = "none" /\ active_link = FALSE /\ fds = "none"
    /\ leaked = "none" /\ echo = FALSE
    /\ aliasLog = "none" /\ last = "none" /\ rcvd = << >>

\* main up to time.sleep(STARTUP_DELAY_SEC): the table is loaded, the
\* pseudo-terminal opened and the link made when --target is given; an
\* exception of load_commands ends the process
Startup ==
    /\ pc = "start"
    /\ IF load_commands(doc).exc = "none"
       THEN /\ commands' = load_commands(doc).value /\ pc' = "starting"
            /\ cause' = cause
            /\ path' = FirstPath /\ fds' = "open" /\ echo' = TRUE
            /\ IF target
               THEN \E o \in AliasOutcomes(alias, FirstPath, leaked) :
                        /\ alias' = o.alias /\ aliasLog' = o.log
                        /\ active_link' = o.set
               ELSE UNCHANGED << alias, aliasLog, active_link >>
       ELSE /\ commands' = commands /\ pc' = "failed"
            /\ cause' = load_commands(doc).exc
            /\ UNCHANGED << alias, path, active_link, fds, echo, aliasLog >>
    /\ UNCHANGED << doc, buffer, line, res, ep, inq, out, framed, sent, stream, cut,
                    target, master0, leaked, raw, last, rcvd >>

\* time.sleep(STARTUP_DELAY_SEC) ends and the handlers are installed
StartupDone ==
    /\ pc = "starting"
    /\ pc' = "read"
    /\ UNCHANGED << doc, commands, buffer, line, res, ep, inq, out, framed, sent, stream,
                    cut, cause, env, rcvd >>

\* SIGTERM or SIGINT before the handlers are installed: the process is
\* killed or ends on an uncaught KeyboardInterrupt; cleanup does not run,
\* a link made stays
StartupSignal ==
    /\ pc \in { "start", "starting" }
    /\ pc' = "killed" /\ last' = pc
    /\ \E c \in { "SIGTERM", "KeyboardInterrupt" } : cause' = c
    /\ fds' = IF fds = "open" THEN "closed" ELSE fds
    /\ UNCHANGED << doc, commands, buffer, line, res, ep, inq, out, framed, sent, stream,
                    cut, target, alias, path, active_link, master0, leaked, echo, raw,
                    aliasLog, rcvd >>

\* a client that uses raw mode opens the slave and sets it
ClientOpen ==
    /\ pc \in Running \cup { "starting" } /\ fds = "open"
    /\ raw /\ echo
    /\ echo' = FALSE
    /\ UNCHANGED << pc, doc, commands, buffer, line, res, ep, inq, out, framed, sent,
                    stream, cut, cause, target, alias, path, active_link, fds, master0,
                    leaked, raw, aliasLog, last, rcvd >>

\* the client writes a message to the slave it has opened
ClientWrite ==
    /\ pc \in Running \cup { "starting" } /\ fds = "open"
    /\ raw => ~echo
    /\ Len(sent) < MaxSends
    /\ \E m \in ClientMessages :
        /\ inq' = inq \o Arrives(m)
        /\ sent' = Append(sent, [ep |-> ep, data |-> m])
    /\ UNCHANGED << pc, doc, commands, buffer, line, res, ep, out, framed, stream, cut,
                    cause, env, rcvd >>

\* data = os.read(master_fd, 1024) blocks until bytes are available and
\* returns them, at most ReadSize at once; buffer += data
Read ==
    /\ pc = "read"
    /\ inq # << >>
    /\ buffer' = buffer \o Upto(inq, ReadSize)
    /\ rcvd' = rcvd \o Upto(inq, ReadSize)
    /\ inq' = From(inq, ReadSize)
    /\ pc' = "lines"
    /\ UNCHANGED << doc, commands, line, res, ep, out, framed, sent, stream, cut, cause,
                    env >>

\* cleanup without the removal of the link
cleanup_keeps_link(c) ==
    /\ pc' = "terminated" /\ cause' = c /\ last' = pc
    /\ fds' = "closed" /\ leaked' = "none"
    /\ UNCHANGED << alias, aliasLog >>
    /\ UNCHANGED << target, path, active_link, master0, echo, raw >>

\* cleanup: the link is removed if active_link is set and os.path.islink
\* finds it, a refusal of os.unlink being passed over; the descriptors that
\* are not 0 are closed, and sys.exit(0) ends the process, which closes
\* every descriptor
cleanup(c) ==
    /\ pc' = "terminated" /\ cause' = c /\ last' = pc
    /\ fds' = "closed" /\ leaked' = "none"
    /\ IF active_link /\ alias # "none"
       THEN \E ok \in BOOLEAN :
                /\ alias' = IF ok THEN "none" ELSE alias
                /\ aliasLog' = IF ok THEN "unlinked" ELSE "unlink_refused"
       ELSE UNCHANGED << alias, aliasLog >>
    /\ UNCHANGED << target, path, active_link, master0, echo, raw >>

\* os.read returns no data: break, cleanup()
PeerClosed ==
    /\ pc = "read"
    /\ cleanup("peer_closed")
    /\ UNCHANGED << doc, commands, buffer, line, res, ep, inq, out, framed, sent, stream,
                    cut, rcvd >>

\* os.read raises OSError: break, cleanup()
ReadFails ==
    /\ pc = "read"
    /\ cleanup("OSError")
    /\ UNCHANGED << doc, commands, buffer, line, res, ep, inq, out, framed, sent, stream,
                    cut, rcvd >>

\* the position after build_response returned or raised
AfterResolve(r) ==
    IF r.exc # "none" THEN "crashed"
    ELSE IF r.delay = -1 THEN "reboot_write"
    ELSE IF r.delay # 0 THEN "delay"
    ELSE "write"

\* one turn of the inner loop: a line is cut from the buffer, decoded and,
\* unless it is empty, parsed and resolved
ProcessLine ==
    /\ pc = "lines"
    /\ HasTerminator(buffer)
    /\ buffer' = AfterLine(buffer)
    /\ LET text == DecodeLine(LineBytes(buffer))
           cmd == parse_at(text)
       IN  IF text = << >>
           THEN UNCHANGED << pc, line, res, framed, cause >>
           ELSE /\ line' = text
                /\ framed' = Append(framed, text)
                /\ res' = build_response(cmd.name, cmd.args, commands)
                /\ pc' = AfterResolve(res')
                /\ cause' = res'.exc
    /\ UNCHANGED << doc, commands, ep, inq, out, sent, stream, cut, env, rcvd >>

\* the inner loop left after its first turn
EndOfLines_after_one_line ==
    /\ pc = "lines"
    /\ framed # << >> \/ ~HasTerminator(buffer)
    /\ pc' = "read"
    /\ UNCHANGED << doc, commands, buffer, line, res, ep, inq, out, framed, sent, stream,
                    cut, cause, env, rcvd >>

\* the inner loop ends when the buffer holds no terminator
EndOfLines ==
    /\ pc = "lines"
    /\ ~HasTerminator(buffer)
    /\ pc' = "read"
    /\ UNCHANGED << doc, commands, buffer, line, res, ep, inq, out, framed, sent, stream,
                    cut, cause, env, rcvd >>

\* the same with the response handed to a timer: the loop goes on at once
Delay_deferred ==
    /\ pc = "delay"
    /\ pc' = "lines"
    /\ UNCHANGED << doc, commands, buffer, line, res, ep, inq, out, framed, sent, stream,
                    cut, cause, env, rcvd >>

\* time.sleep(delay_ms / 1000.0); a negative value raises ValueError
Delay ==
    /\ pc = "delay"
    /\ pc' = IF res.delay < 0 THEN "crashed" ELSE "write"
    /\ cause' = IF res.delay < 0 THEN "ValueError" ELSE cause
    /\ UNCHANGED << doc, commands, buffer, line, res, ep, inq, out, framed, sent, stream,
                    cut, env, rcvd >>

\* os.write(master_fd, resp.encode()); with ECHO set the response comes
\* back to the master
Write ==
    /\ pc = "write"
    /\ Len(out) < MaxWrites
    /\ out' = Append(out, [ep |-> ep, resp |-> res.resp])
    /\ inq' = inq \o EchoOf(res.resp)
    /\ pc' = "lines"
    /\ UNCHANGED << doc, commands, buffer, line, res, ep, framed, sent, stream, cut,
                    cause, env, rcvd >>

\* os.write of the reply to the reboot command
RebootWrite ==
    /\ pc = "reboot_write"
    /\ Len(out) < MaxWrites
    /\ out' = Append(out, [ep |-> ep, resp |-> res.resp])
    /\ inq' = inq \o EchoOf(res.resp)
    /\ pc' = "settle"
    /\ UNCHANGED << doc, commands, buffer, line, res, ep, framed, sent, stream, cut,
                    cause, env, rcvd >>

\* os.write raises OSError: break, cleanup()
WriteFails ==
    /\ pc \in { "write", "reboot_write" }
    /\ cleanup("OSError")
    /\ UNCHANGED << doc, commands, buffer, line, res, ep, inq, out, framed, sent, stream,
                    cut, rcvd >>

\* time.sleep(1)
Settle ==
    /\ pc = "settle"
    /\ pc' = "reboot"
    /\ UNCHANGED << doc, commands, buffer, line, res, ep, inq, out, framed, sent, stream,
                    cut, cause, env, rcvd >>

\* reboot_modem, first step: if master_fd: os.close(master_fd); if
\* slave_fd: os.close(slave_fd); a master_fd of 0 is not closed; the bytes
\* the client wrote and the loop did not read are never read
RebootClose ==
    /\ pc = "reboot"
    /\ fds' = IF master0 THEN "slave_closed" ELSE "closed"
    /\ inq' = << >>
    /\ pc' = "rb_open"
    /\ UNCHANGED << doc, commands, buffer, line, res, ep, out, framed, sent, stream, cut,
                    cause, target, alias, path, active_link, master0, leaked, echo, raw,
                    aliasLog, last, rcvd >>

\* the path of the pair whose master reboot_modem has just left open
HeldAfterClose == IF fds = "slave_closed" THEN path ELSE leaked

\* the new pair opened with master_fd left at the pair that was closed
RebootOpen_keeps_master ==
    /\ pc = "rb_open"
    /\ leaked' = HeldAfterClose
    /\ \E p \in Paths \ { HeldAfterClose } : path' = p
    /\ ep' = ep
    /\ fds' = "open" /\ echo' = TRUE /\ master0' = FALSE
    /\ pc' = IF target THEN "rb_alias" ELSE "lines"
    /\ UNCHANGED << doc, commands, buffer, line, res, inq, out, framed, sent, stream, cut,
                    cause, target, alias, active_link, raw, aliasLog, last, rcvd >>

\* reboot_modem, second step: pty.openpty(), os.ttyname, and the globals
\* master_fd, slave_fd set to the new pair; its path is any that no open
\* pair of the process has, its termios are those of a new slave
RebootOpen ==
    /\ pc = "rb_open"
    /\ leaked' = HeldAfterClose
    /\ \E p \in Paths \ { HeldAfterClose } : path' = p
    /\ ep' = ep + 1
    /\ fds' = "open" /\ echo' = TRUE /\ master0' = FALSE
    /\ pc' = IF target THEN "rb_alias" ELSE "lines"
    /\ UNCHANGED << doc, commands, buffer, line, res, inq, out, framed, sent, stream, cut,
                    cause, target, alias, active_link, raw, aliasLog, last, rcvd >>

\* reboot_modem, third step, when --target is given: os.path.exists,
\* os.remove and os.symlink; an exception ends reboot_modem; continue
RebootAlias ==
    /\ pc = "rb_alias"
    /\ \E o \in AliasOutcomes(alias, path, leaked) :
        /\ alias' = o.alias /\ aliasLog' = o.log
        /\ pc' = IF o.set THEN "rb_record" ELSE "lines"
    /\ UNCHANGED << doc, commands, buffer, line, res, ep, inq, out, framed, sent, stream,
                    cut, cause, target, path, active_link, fds, master0, leaked, echo,
                    raw, last, rcvd >>

\* reboot_modem, last step: active_link = args.target; continue
RebootRecord ==
    /\ pc = "rb_record"
    /\ active_link' = TRUE
    /\ pc' = "lines"
    /\ UNCHANGED << doc, commands, buffer, line, res, ep, inq, out, framed, sent, stream,
                    cut, cause, target, alias, path, fds, master0, leaked, echo, raw,
                    aliasLog, last, rcvd >>

reboot_modem == RebootClose \/ RebootOpen \/ RebootAlias \/ RebootRecord

\* pty.openpty raises OSError in reboot_modem: break, cleanup()
RebootFails ==
    /\ pc = "rb_open"
    /\ cleanup("OSError")
    /\ UNCHANGED << doc, commands, buffer, line, res, ep, inq, out, framed, sent, stream,
                    cut, rcvd >>

\* SIGINT or SIGTERM once the handlers are installed, at any position of
\* the loop: cleanup(), sys.exit(0)
Signal ==
    /\ pc \in Running
    /\ cleanup("signal")
    /\ UNCHANGED << doc, commands, buffer, line, res, ep, inq, out, framed, sent, stream,
                    cut, rcvd >>

Next ==
    \/ Startup \/ StartupDone \/ StartupSignal \/ ClientOpen \/ ClientWrite
    \/ Read \/ PeerClosed \/ ReadFails
    \/ ProcessLine \/ EndOfLines \/ Delay \/ Write \/ RebootWrite \/ WriteFails
    \/ Settle \/ reboot_modem \/ RebootFails \/ Signal

Spec == Init /\ [][Next]_vars

\* ------------------------------------------------------------------
\* Properties of the engine
\* ------------------------------------------------------------------
\* the response the engine owes to a framed line
ResponseTo(l) ==
    LET cmd == parse_at(l) IN build_response(cmd.name, cmd.args, commands).resp

\* number of responses written that equal r
RECURSIVE CountWritten(_, _)
CountWritten(o, r) ==
    IF o = << >> THEN 0
    ELSE (IF Head(o).resp = r THEN 1 ELSE 0) + CountWritten(Tail(o), r)

\* the table is what the specification of load accepts: every value is a
\* text or a record with a resp template and an optional delay >= 0
WellFormed(items) ==
    \A i \in 1..Len(items) :
        \/ items[i].val.kind = "str"
        \/ /\ items[i].val.kind = "dict"
           /\ items[i].val.hasResp
           /\ items[i].val.hasDelay => items[i].val.delay >= 0

\* C1: the client sent AT+CFUN=1,1 and then ATI to the same endpoint, which
\* is open until the settle interval has elapsed; once the engine has
\* nothing left to read and waits for input, the response to ATI has been
\* written exactly once.
C1_RebootKeepsPendingInput ==
    ( /\ pc = "read" /\ inq = << >>
      /\ Get(commands, KeyATI).kind = "str"
      /\ Len(sent) = 2
      /\ sent[1].data = MsgCFUN11 /\ sent[2].data = MsgATI
      /\ sent[2].ep = sent[1].ep )
    => CountWritten(out, ResponseTo(KeyATI)) = 1

\* C2: under a table that load is specified to accept, no line makes the
\* engine crash: every line framed is resolved to a response without an
\* exception, and the process ends only on peer close, on a transport error
\* or on a signal.
C2_NeverCrashes ==
    WellFormed(commands) =>
        /\ pc # "crashed"
        /\ pc \in { "delay", "write", "reboot_write" } => res.exc = "none"
        /\ pc = "terminated" => cause \in { "peer_closed", "OSError", "signal" }

\* C3: the responses written are those of the lines framed, in the order of
\* the framing; whenever the engine reads or frames a line, the response to
\* every line framed before has been written, and at most one response is
\* awaited at any time.  out and framed only grow, so the response of
\* each position is compared in the states in which it is the last written.
C3_SequentialOrder ==
    /\ Len(out) <= Len(framed)
    /\ out # << >> => out[Len(out)].resp = ResponseTo(framed[Len(out)])
    /\ Len(framed) - Len(out) <= 1
    /\ pc \in { "read", "lines" } => Len(out) = Len(framed)

\* C3 witness: the engine is in the delay of the first line while a second
\* message of the client waits unread
C3_Witness ==
    /\ pc = "delay" /\ res.delay > 0
    /\ Len(framed) = 1 /\ Len(out) = 0
    /\ Len(sent) = 2 /\ inq = Arrives(sent[2].data)

\* C5: with a document whose content is malformed the process ends in
\* load and the loop is never entered.
C5_MalformedRejected ==
    (pc # "start" /\ doc.readable /\ ~WellFormed(doc.items)) => pc = "failed"

\* the line makes main run the reboot protocol: build_response gives the
\* delay -1
IsRebootLine(l) ==
    LET cmd == parse_at(l) IN build_response(cmd.name, cmd.args, commands).delay = -1

\* the pair master_fd refers to once the k-th line framed has been
\* answered and, if it is a reboot line, the reboot has run
EpAfter(k) ==
    IF k = 0 THEN 0
    ELSE out[k].ep + (IF IsRebootLine(framed[k]) THEN 1 ELSE 0)

\* positions of the reboot protocol
InReboot == { "reboot_write", "settle", "reboot", "rb_open", "rb_alias", "rb_record" }

\* C13: the reboot protocol runs only for a line that parses to AT+CFUN
\* with the arguments ["1","1"]; no line resolved from the table starts it.
C13_RebootOnlyOnCfun ==
    /\ pc \in InReboot =>
        /\ parse_at(line).name = NameCFUN
        /\ parse_at(line).args = << << "1" >>, << "1" >> >>
    /\ \A k \in 1..Len(framed) :
        IsRebootLine(framed[k]) => parse_at(framed[k]).name = NameCFUN

\* C14: the reply to the reboot command is written to the pair that is
\* open before the reboot, no line is resolved while the reboot runs, and
\* the response to every line framed after a reboot line is written to the
\* pair opened by that reboot, with the descriptors open.  The pair of
\* each response is compared in the states in which it is the last written.
C14_RebootOrdering ==
    /\ Len(out) <= Len(framed)
    /\ out # << >> => out[Len(out)].ep = EpAfter(Len(out) - 1)
    /\ pc \in { "settle", "reboot", "rb_open", "rb_alias", "rb_record" } =>
        /\ Len(out) = Len(framed)
        /\ IsRebootLine(framed[Len(framed)])
        /\ out[Len(out)].resp = ResponseTo(framed[Len(framed)])
        /\ out[Len(out)].ep = IF pc \in { "rb_alias", "rb_record" } THEN ep - 1 ELSE ep
    /\ pc \in { "delay", "write", "reboot_write" } =>
        /\ Len(out) = Len(framed) - 1
        /\ ep = EpAfter(Len(out))
    /\ pc \in { "read", "lines" } =>
        /\ Len(out) = Len(framed)
        /\ ep = EpAfter(Len(out))
    /\ pc \in { "read", "lines", "delay", "write", "reboot_write" } => fds = "open"
    /\ pc = "rb_open" => fds \in { "closed", "slave_closed" }

\* C14 witness: AT+CFUN=1,1 and a second line were read together; OK was
\* written to the first pair and the response to the second line to the
\* pair the reboot opened
C14_Witness ==
    /\ Len(out) = 2 /\ Len(framed) = 2
    /\ IsRebootLine(framed[1])
    /\ out[1] = [ep |-> 0, resp |-> RespOK]
    /\ out[2].ep = 1 /\ out[2].resp = ResponseTo(framed[2])
    /\ Len(sent) = 2 /\ sent[2].ep = 0

\* a removal or a creation of the link was refused for lack of permission
PermissionRefused == aliasLog \in { "remove_refused", "create_refused" }

\* a removal or a creation of the link failed
AliasFailed == aliasLog \in { "remove_refused", "create_refused", "create_exists" }

\* C15: with --target given and no permission refused, after every reboot
\* the link points at the path of the slave the reboot opened, whatever
\* that path is.
C15_AliasFollowsReboot ==
    ( /\ target /\ ep >= 1
      /\ pc \in { "read", "lines", "delay", "write", "reboot_write", "settle", "reboot" }
      /\ ~PermissionRefused )
    => alias = path

\* C16: when the removal or the creation of the link fails at startup or
\* in a reboot, the engine goes on with the pair open and the link is
\* absent.
C16_AliasFailureLeavesNone ==
    ( /\ target /\ AliasFailed
      /\ pc \in { "read", "lines", "delay", "write", "reboot_write", "settle", "reboot" } )
    => /\ fds = "open"
       /\ alias = "none"

\* the loop ended on a read of no data or on an error of the transport
TransportEnd == pc = "terminated" /\ cause \in { "peer_closed", "OSError" }

\* C17 as stated: after a read of no data or an error of the transport,
\* allocation in a reboot included, the process has ended, nothing is
\* tried again, the descriptors are closed and the link is removed.
C17_TeardownRemovesLink ==
    TransportEnd =>
        /\ ~ENABLED Next
        /\ fds = "closed" /\ leaked = "none"
        /\ alias = "none"

\* C17: after a read of no data or an error of the transport, allocation
\* in a reboot included, the process has ended, nothing is tried again, the
\* descriptors are closed, and the link is removed unless os.unlink
\* refused, which is passed over.
C17_TeardownUnlessRefused ==
    TransportEnd =>
        /\ ~ENABLED Next
        /\ fds = "closed" /\ leaked = "none"
        /\ aliasLog # "unlink_refused" => alias = "none"
        /\ aliasLog = "unlink_refused" => (active_link /\ alias # "none")

\* C17 witness: pty.openpty failed in a reboot and the link the engine had
\* made was removed
C17_Witness ==
    /\ TransportEnd /\ cause = "OSError" /\ last = "rb_open"
    /\ active_link /\ aliasLog = "unlinked" /\ alias = "none"
    /\ fds = "closed"

\* C18: a signal can arrive at every position of the loop, delay, settle
\* interval and every step of the reboot included; after it the process
\* has ended with teardown run, that is with the descriptors closed and
\* the link removed unless os.unlink refused, the suspension it
\* interrupted was not completed, and no response is written and no
\* reboot started any more.
C18_SignalTerminates ==
    /\ pc \in Running => ENABLED Signal
    /\ cause = "signal" =>
        /\ pc = "terminated" /\ last \in Running
        /\ ~ENABLED Next
        /\ fds = "closed"
        /\ aliasLog # "unlink_refused" => alias = "none"
        /\ last \in { "delay", "write", "reboot_write" } => Len(out) = Len(framed) - 1
        /\ last \in { "settle", "reboot" } =>
            (Len(out) = Len(framed) /\ out[Len(out)].ep = ep)

\* C20: whenever the engine waits in os.read the buffer holds neither CR
\* nor LF, and the lines framed and the buffer are those of the framing of
\* every byte read so far.
C20_NoLineLeftAtRead ==
    pc = "read" =>
        /\ ~Contains(buffer, << "CR" >>)
        /\ ~Contains(buffer, << "LF" >>)
        /\ LET all == FrameAll(rcvd, << >>)
           IN  all.lines = framed /\ all.buffer = buffer

\* C20 witness: after a reboot the engine waits for input with a line begun
\* in the buffer
C20_Witness ==
    /\ pc = "read" /\ ep = 1
    /\ buffer = MsgAT
    /\ Len(framed) = 1

====
